---- MODULE Spec2Model ----
(***************************************************************************)
(* Model of the convertable crate (src/lib.rs): the four conversion traits *)
(* ConvertFrom, ConvertInto, TryConvertFrom, TryConvertInto, the three     *)
(* blanket implementations that derive one from another, and the generic   *)
(* container conversions of the crate's test module.                       *)
(*                                                                         *)
(* The state is a program (its trait implementations: the hand-written     *)
(* ones and those the blanket implementations derive from them) and the    *)
(* conversion call in progress.  The blanket implementations are           *)
(* operators: on the type level they derive implementations from           *)
(* implementations, on the value level they delegate a call to the         *)
(* implementation they are derived from.                                   *)
(***************************************************************************)
EXTENDS Naturals, Sequences, FiniteSets

VARIABLES impls, call

vars == <<impls, call>>

(* ------------------------------ bounds --------------------------------- *)

\* the u8 field of A and B ranges over 0..MaxVal
MaxVal == 1
\* a user-chosen error type has the values 1..MaxErr
MaxErr == 2
\* a program holds at most MaxManual hand-written implementations
MaxManual == 2

(* ------------------------------ types ---------------------------------- *)

\* structs!(): the concrete types A(u8) and B(u8)
Types == {"A", "B"}

Vals == 0 .. MaxVal

\* the four traits
Caps == {"ConvertFrom", "ConvertInto", "TryConvertFrom", "TryConvertInto"}

Fallible == {"TryConvertFrom", "TryConvertInto"}

\* core::convert::Infallible, and "E" for an error type the implementer picks
ErrTypes == {"E", "Infallible"}

\* the values of an error type: Infallible has none
Inhabitants(e) == IF e = "Infallible" THEN {} ELSE 1 .. MaxErr

\* a value of the tuple struct ty: A(n), B(n), or an error value
Mk(ty, n) == [ty |-> ty, v |-> n]

\* C<T>(T)
C(x) == [ty |-> "C", field |-> x]

\* Result::Ok and Result::Err
Ok(x) == [tag |-> "Ok", val |-> x]

Err(e) == [tag |-> "Err", val |-> e]

(* ---------------------- implementations (type level) ------------------- *)

\* an implementation of trait cap converting src into tgt; err is the
\* associated Error type of a fallible trait ("None" for an infallible one)
Impl(cap, s, t, origin, e) ==
  [cap |-> cap, src |-> s, tgt |-> t, origin |-> origin, err |-> e]

\* the generic container conversions of the test module, from C<T> to C<U>:
\* impl<T: Into<U>, U> ConvertFrom<C<T>> for C<U>
ContainerConvertFrom == Impl("ConvertFrom", "C<T>", "C<U>", "manual", "None")

\* impl<T: TryInto<U, Error = E>, U, E> TryConvertFrom<C<T>> for C<U>,
\* type Error = E
ContainerTryConvertFrom == Impl("TryConvertFrom", "C<T>", "C<U>", "manual", "E")

\* the implementations downstream code can write by hand: any trait for any
\* pair of the concrete types, and the two container conversions
ManualImpls ==
  {Impl(cap, s, t, "manual", "None") :
      cap \in Caps \ Fallible, s \in Types, t \in Types}
  \cup
  {Impl(x[1], x[2], x[3], "manual", x[4]) :
      x \in Fallible \X Types \X Types \X ErrTypes}
  \cup
  {ContainerConvertFrom, ContainerTryConvertFrom}

\* the hand-written implementations of a program
Manual(P) == {i \in P : i.origin = "manual"}

\* a faulty rule 1: the reverse direction, ConvertFrom derived from ConvertInto
Rule1_Reversed(S) ==
  {Impl("ConvertFrom", i.src, i.tgt, "rule1", "None") :
      i \in {j \in S : j.cap = "ConvertInto"}}

\* impl<T, U> ConvertInto<U> for T where U: ConvertFrom<T>
Rule1(S) ==
  {Impl("ConvertInto", i.src, i.tgt, "rule1", "None") :
      i \in {j \in S : j.cap = "ConvertFrom"}}

\* a faulty rule 2: a fixed Error type in place of U::Error
Rule2_FixedError(S) ==
  {Impl("TryConvertInto", i.src, i.tgt, "rule2", "E") :
      i \in {j \in S : j.cap = "TryConvertFrom"}}

\* impl<T, U> TryConvertInto<U> for T where U: TryConvertFrom<T>,
\* type Error = U::Error
Rule2(S) ==
  {Impl("TryConvertInto", i.src, i.tgt, "rule2", i.err) :
      i \in {j \in S : j.cap = "TryConvertFrom"}}

\* a faulty rule 3: the bridge implements TryConvertInto, which rule 2
\* derives as well
Rule3_Into(S) ==
  {Impl("TryConvertInto", i.src, i.tgt, "rule3", "Infallible") :
      i \in {j \in S : j.cap = "ConvertInto"}}

\* a faulty rule 3: an inhabited Error type in place of Infallible
Rule3_Inhabited(S) ==
  {Impl("TryConvertFrom", i.src, i.tgt, "rule3", "E") :
      i \in {j \in S : j.cap = "ConvertInto"}}

\* impl<T, U> TryConvertFrom<U> for T where U: ConvertInto<T>,
\* type Error = Infallible
Rule3(S) ==
  {Impl("TryConvertFrom", i.src, i.tgt, "rule3", "Infallible") :
      i \in {j \in S : j.cap = "ConvertInto"}}

\* every implementation of the program: the hand-written ones and all that
\* the blanket implementations derive from them
RECURSIVE Closure(_)
Closure(S) ==
  LET N == S \cup Rule1(S) \cup Rule2(S) \cup Rule3(S)
  IN  IF N = S THEN S ELSE Closure(N)

\* the implementations of trait cap for the pair (s, t)
Resolve(P, cap, s, t) == {i \in P : i.cap = cap /\ i.src = s /\ i.tgt = t}

\* coherence: at most one implementation of a trait for a pair of types
Coherent(P) ==
  \A i \in P : \A j \in P :
      (i.cap = j.cap /\ i.src = j.src /\ i.tgt = j.tgt) => i = j

(* ------------------------ conversions (value level) -------------------- *)

\* no value: the pair lacks the capability asked for
NA == Mk("NA", 0)

\* the bodies an implementer can give a hand-written infallible conversion:
\* any function of the source's field
InfallibleBodies == [Vals -> Vals]

\* the bodies of a hand-written fallible conversion with Error type e: any
\* function of the source's field to a success or a value of e
FallibleBodies(e) ==
  [Vals -> {Ok(n) : n \in Vals} \cup {Err(k) : k \in Inhabitants(e)}]

\* the hand-written implementation the pair's capabilities rest on
Root(P, s, t) == CHOOSE i \in Manual(P) : i.src = s /\ i.tgt = t

\* the bodies the pair's hand-written implementation can have
Bodies(P, s, t) ==
  IF \A i \in Manual(P) : ~(i.src = s /\ i.tgt = t) THEN {}
  ELSE IF Root(P, s, t).cap \in Fallible THEN FallibleBodies(Root(P, s, t).err)
  ELSE InfallibleBodies

\* the call's environment: the program's implementations, the pair of types
\* the call is resolved for, and the body of the hand-written implementation
Env(P, s, t, body) ==
  [P |-> P, s |-> s, t |-> t, body |-> body, err |-> Root(P, s, t).err]

\* which implementation of trait cap the call resolves to
Origin(env, cap) ==
  (CHOOSE i \in Resolve(env.P, cap, env.s, env.t) : TRUE).origin

\* a call evaluates to its return value and the user-supplied functions it
\* invoked, in order, each with its argument
UserInfallible(name, env, x) ==
  [ret   |-> Mk(env.t, env.body[x.v]),
   calls |-> <<[fn |-> name, arg |-> x]>>]

UserFallible(name, env, x) ==
  LET r == env.body[x.v]
  IN  [ret   |-> IF r.tag = "Ok" THEN Ok(Mk(env.t, r.val))
                                 ELSE Err(Mk(env.err, r.val)),
       calls |-> <<[fn |-> name, arg |-> x]>>]

\* ConvertFrom::convert_from: always hand-written
convert_from(env, x) == UserInfallible("convert_from", env, x)

\* a faulty convert_into: the field is copied into the target type, whatever
\* U::convert_from makes of it
blanket_convert_into_copy(env, x) ==
  [ret |-> Mk(env.t, x.v), calls |-> convert_from(env, x).calls]

\* fn convert_into(self) -> U { U::convert_from(self) }
blanket_convert_into(env, x) == convert_from(env, x)

\* ConvertInto::convert_into: the blanket implementation, or hand-written
convert_into(env, x) ==
  IF Origin(env, "ConvertInto") = "rule1"
  THEN blanket_convert_into(env, x)
  ELSE UserInfallible("convert_into", env, x)

\* a faulty try_convert_from: the value is wrapped without being converted
blanket_try_convert_from_unconverted(env, x) ==
  [ret |-> Ok(Mk(env.t, x.v)), calls |-> convert_into(env, x).calls]

\* a faulty try_convert_from: the conversion is run twice
blanket_try_convert_from_twice(env, x) ==
  LET r == convert_into(env, x)
  IN  [ret |-> Ok(r.ret), calls |-> r.calls \o r.calls]

\* fn try_convert_from(value: U) -> Result<Self, Infallible>
\*   { Ok(U::convert_into(value)) }
blanket_try_convert_from(env, x) ==
  LET r == convert_into(env, x)
  IN  [ret |-> Ok(r.ret), calls |-> r.calls]

\* TryConvertFrom::try_convert_from: the blanket implementation, or hand-written
try_convert_from(env, x) ==
  IF Origin(env, "TryConvertFrom") = "rule3"
  THEN blanket_try_convert_from(env, x)
  ELSE UserFallible("try_convert_from", env, x)

\* a faulty try_convert_into: a failure is replaced by the first error value
blanket_try_convert_into_lossy(env, x) ==
  LET r == try_convert_from(env, x)
  IN  IF r.ret.tag = "Err" THEN [r EXCEPT !.ret = Err(Mk(env.err, 1))] ELSE r

\* fn try_convert_into(self) -> Result<U, U::Error> { U::try_convert_from(self) }
blanket_try_convert_into(env, x) == try_convert_from(env, x)

\* TryConvertInto::try_convert_into: the blanket implementation, or hand-written
try_convert_into(env, x) ==
  IF Origin(env, "TryConvertInto") = "rule2"
  THEN blanket_try_convert_into(env, x)
  ELSE UserFallible("try_convert_into", env, x)

\* the value of calling trait cap's function on x, NA if the pair lacks cap
Probe(env, cap, x) ==
  IF Resolve(env.P, cap, env.s, env.t) = {} THEN NA
  ELSE IF cap = "ConvertFrom" THEN convert_from(env, x).ret
  ELSE IF cap = "ConvertInto" THEN convert_into(env, x).ret
  ELSE IF cap = "TryConvertFrom" THEN try_convert_from(env, x).ret
  ELSE try_convert_into(env, x).ret

\* the ? operator on a failure r of the inner conversion: the function
\* returns Err(From::from(e)) at once; From<E> for E gives the same value
EarlyReturn(r) == Err(r.val)

\* a faulty container conversion: the field is copied, not converted
C_convert_from_copy(t, into, c) ==
  [ret   |-> C(Mk(t, c.field.v)),
   calls |-> <<[fn |-> "into", arg |-> c.field]>>]

\* impl<T: Into<U>, U> ConvertFrom<C<T>> for C<U>:  Self(value.0.into())
C_convert_from(t, into, c) ==
  [ret   |-> C(Mk(t, into[c.field.v])),
   calls |-> <<[fn |-> "into", arg |-> c.field]>>]

\* a faulty fallible container conversion: a failure of the inner conversion
\* is replaced by the first error value
C_try_convert_from_lossy(t, e, try_into, c) ==
  LET r == try_into[c.field.v]
  IN  [ret   |-> IF r.tag = "Ok" THEN Ok(C(Mk(t, r.val))) ELSE Err(Mk(e, 1)),
       calls |-> <<[fn |-> "try_into", arg |-> c.field]>>]

\* impl<T: TryInto<U, Error = E>, U, E> TryConvertFrom<C<T>> for C<U>:
\*   Ok(Self(value.0.try_into()?))
C_try_convert_from(t, e, try_into, c) ==
  LET r     == try_into[c.field.v]
      inner == IF r.tag = "Ok" THEN Ok(Mk(t, r.val)) ELSE Err(Mk(e, r.val))
  IN  [ret   |-> IF inner.tag = "Err" THEN EarlyReturn(inner)
                 ELSE Ok(C(inner.val)),
       calls |-> <<[fn |-> "try_into", arg |-> c.field]>>]

(* ------------------------------ the program ---------------------------- *)

\* the record of a call: the function called, the pair of types it was
\* resolved for, the implementation it resolved to and its Error type, the
\* argument, the return value, the user-supplied functions invoked, and
\* the values the pair's other conversions give for the same argument
Called(op, env, cap, x, r) ==
  [op |-> op, src |-> env.s, tgt |-> env.t,
   origin |-> Origin(env, cap),
   err |-> (CHOOSE i \in Resolve(env.P, cap, env.s, env.t) : TRUE).err,
   arg |-> x, ret |-> r.ret, calls |-> r.calls,
   cf  |-> Probe(env, "ConvertFrom", x),
   ci  |-> Probe(env, "ConvertInto", x),
   tcf |-> Probe(env, "TryConvertFrom", x),
   inner |-> NA]

\* no call in progress
NoCall ==
  [op |-> "none", src |-> "NA", tgt |-> "NA", origin |-> "none", err |-> "None",
   arg |-> NA, ret |-> NA, calls |-> << >>, cf |-> NA, ci |-> NA, tcf |-> NA,
   inner |-> NA]

Init ==
  /\ impls = {}
  /\ call = NoCall

\* downstream code writes an implementation of one of the traits by hand;
\* the blanket implementations apply to it at once
Implement(i) ==
  /\ call = NoCall
  /\ Cardinality(Manual(impls)) < MaxManual
  /\ i \notin impls
  /\ impls' = Closure(impls \cup {i})
  /\ UNCHANGED call

\* the pair (s, t) has trait cap in a program the compiler accepts, and the
\* caller is not inside another call (calls are synchronous)
Callable(cap, s, t) ==
  /\ call = NoCall
  /\ Coherent(impls)
  /\ Resolve(impls, cap, s, t) # {}

\* a.convert_into()
CallConvertInto(s, t) ==
  /\ Callable("ConvertInto", s, t)
  /\ \E body \in Bodies(impls, s, t), n \in Vals :
       LET env == Env(impls, s, t, body)
           x   == Mk(s, n)
       IN  call' = Called("convert_into", env, "ConvertInto", x, convert_into(env, x))
  /\ UNCHANGED impls

\* B::try_convert_from(a)
CallTryConvertFrom(s, t) ==
  /\ Callable("TryConvertFrom", s, t)
  /\ \E body \in Bodies(impls, s, t), n \in Vals :
       LET env == Env(impls, s, t, body)
           x   == Mk(s, n)
       IN  call' = Called("try_convert_from", env, "TryConvertFrom", x, try_convert_from(env, x))
  /\ UNCHANGED impls

\* a.try_convert_into()
CallTryConvertInto(s, t) ==
  /\ Callable("TryConvertInto", s, t)
  /\ \E body \in Bodies(impls, s, t), n \in Vals :
       LET env == Env(impls, s, t, body)
           x   == Mk(s, n)
       IN  call' = Called("try_convert_into", env, "TryConvertInto", x, try_convert_into(env, x))
  /\ UNCHANGED impls

\* C::convert_from(C(a)) with a: T = s and U = t, s: Into<t> with body into
CallContainerConvertFrom(s, t) ==
  /\ Callable("ConvertFrom", "C<T>", "C<U>")
  /\ ContainerConvertFrom \in impls
  /\ \E into \in InfallibleBodies, n \in Vals :
       LET c == C(Mk(s, n))
           r == C_convert_from(t, into, c)
       IN  call' = [NoCall EXCEPT !.op = "C::convert_from", !.src = s, !.tgt = t,
                                  !.origin = "manual", !.arg = c, !.ret = r.ret,
                                  !.calls = r.calls,
                                  !.inner = Mk(t, into[n])]
  /\ UNCHANGED impls

\* C::try_convert_from(C(a)) with a: T = s and U = t,
\* s: TryInto<t, Error = e> with body try_into
CallContainerTryConvertFrom(s, t, e) ==
  /\ Callable("TryConvertFrom", "C<T>", "C<U>")
  /\ ContainerTryConvertFrom \in impls
  /\ \E try_into \in FallibleBodies(e), n \in Vals :
       LET c == C(Mk(s, n))
           r == C_try_convert_from(t, e, try_into, c)
           i == try_into[n]
       IN  call' = [NoCall EXCEPT !.op = "C::try_convert_from", !.src = s, !.tgt = t,
                                  !.origin = "manual", !.err = e, !.arg = c,
                                  !.ret = r.ret, !.calls = r.calls,
                                  !.inner = IF i.tag = "Ok" THEN Ok(Mk(t, i.val))
                                            ELSE Err(Mk(e, i.val))]
  /\ UNCHANGED impls

\* the caller takes the result: the call is over
Return ==
  /\ call # NoCall
  /\ call' = NoCall
  /\ UNCHANGED impls

Next ==
  \/ \E i \in ManualImpls : Implement(i)
  \/ \E s \in Types, t \in Types : CallConvertInto(s, t)
  \/ \E s \in Types, t \in Types : CallTryConvertFrom(s, t)
  \/ \E s \in Types, t \in Types : CallTryConvertInto(s, t)
  \/ \E s \in Types, t \in Types : CallContainerConvertFrom(s, t)
  \/ \E s \in Types, t \in Types, e \in ErrTypes :
       CallContainerTryConvertFrom(s, t, e)
  \/ Return

Spec == Init /\ [][Next]_vars

(* ------------------------------ properties ----------------------------- *)

\* the implementation of trait cap that the call's pair of types resolves to
ImplOf(cap) == Resolve(impls, cap, call.src, call.tgt)

\* the call's pair has trait cap, and its implementation has this origin
From(cap, origin) == \E i \in ImplOf(cap) : i.origin = origin

\* C1: with a hand-written ConvertFrom<A> for B, the derived a.convert_into()
\* returns exactly the value of B::convert_from(a), for every a
C1_Duality ==
  (call.op = "convert_into" /\ call.origin = "rule1" /\ From("ConvertFrom", "manual"))
    => call.ret = call.cf

\* the test's case: A(1).convert_into() gave B(1) through the blanket impl
C1_Witness ==
  /\ call.op = "convert_into" /\ call.origin = "rule1"
  /\ call.arg = Mk("A", 1) /\ call.ret = Mk("B", 1)

\* C2: with a hand-written TryConvertFrom<A> for B with Error type E, the
\* derived a.try_convert_into() returns exactly the result of
\* B::try_convert_from(a), success or failure, and its Error type is E
C2_FallibleDuality ==
  (call.op = "try_convert_into" /\ call.origin = "rule2"
     /\ From("TryConvertFrom", "manual"))
    => /\ call.ret = call.tcf
       /\ \A i \in ImplOf("TryConvertFrom") : call.err = i.err
       /\ call.ret.tag = "Err" => call.ret.val.ty = call.err

\* a failure of the hand-written conversion came out of the derived call
C2_Witness ==
  /\ call.op = "try_convert_into" /\ call.origin = "rule2"
  /\ From("TryConvertFrom", "manual")
  /\ call.ret = Err(Mk("E", MaxErr))

\* C3: when A implements ConvertInto<B>, by hand or derived, the bridged
\* B::try_convert_from(a) is a success wrapping the value of a.convert_into(),
\* never a failure, and its Error type has no values
C3_BridgeTotality ==
  (call.op = "try_convert_from" /\ call.origin = "rule3")
    => /\ call.ret = Ok(call.ci)
       /\ call.ret.tag = "Ok"
       /\ call.ci # NA
       /\ Inhabitants(call.err) = {}

\* the test's case: ConvertInto<B> for A written by hand, then
\* B::try_convert_from(A(1)) gave Ok(B(1))
C3_Witness ==
  /\ call.op = "try_convert_from" /\ call.origin = "rule3"
  /\ From("ConvertInto", "manual")
  /\ call.arg = Mk("A", 1) /\ call.ret = Ok(Mk("B", 1))

\* no trait is implemented by hand twice for one pair of types
NoManualDuplicates == Coherent(Manual(impls))

\* no hand-written implementation of one of these traits for a pair that has
\* a derived implementation of it
NoneBesideDerived(caps) ==
  \A i \in Manual(impls) : \A j \in impls \ Manual(impls) :
      i.cap \in caps => ~(i.cap = j.cap /\ i.src = j.src /\ i.tgt = j.tgt)

\* C4 as stated: if no ConvertInto or TryConvertInto is written by hand for a
\* pair that has a derived one, the program has at most one implementation
\* of each trait for each pair of types
C4_Coherence_AsStated ==
  (NoManualDuplicates /\ NoneBesideDerived({"ConvertInto", "TryConvertInto"}))
    => Coherent(impls)

\* C4 amended: if no ConvertInto, TryConvertInto or TryConvertFrom is written
\* by hand for a pair that has a derived one, the program has at most one
\* implementation of each trait for each pair of types
C4_Coherence ==
  (NoManualDuplicates
     /\ NoneBesideDerived({"ConvertInto", "TryConvertInto", "TryConvertFrom"}))
    => Coherent(impls)

\* a program within the discipline that has derived implementations of all
\* three derivable traits for (A, B) and a hand-written one for (B, A)
C4_Witness ==
  /\ NoManualDuplicates
  /\ NoneBesideDerived({"ConvertInto", "TryConvertInto", "TryConvertFrom"})
  /\ Impl("ConvertFrom", "A", "B", "manual", "None") \in impls
  /\ Impl("TryConvertInto", "A", "B", "rule2", "Infallible") \in impls
  /\ Impl("TryConvertFrom", "B", "A", "manual", "E") \in impls

\* C5: the container conversion C<A> -> C<B> over an inner fallible
\* conversion with Error type E has Error type E, fails with the inner
\* conversion's error value when that fails, and otherwise succeeds with the
\* container of the inner conversion's value
C5_FallibleComposability ==
  call.op = "C::try_convert_from"
    => /\ call.inner.tag = "Err" =>
            (call.ret = Err(call.inner.val) /\ call.ret.val.ty = call.err)
       /\ call.inner.tag = "Ok" => call.ret = Ok(C(call.inner.val))

\* the inner conversion failed and the container call failed with its error
C5_Witness ==
  /\ call.op = "C::try_convert_from"
  /\ call.inner = Err(Mk("E", MaxErr))
  /\ call.ret.tag = "Err"

\* C6: the container conversion C<A> -> C<B> over an inner infallible
\* conversion gives the container whose field is the inner conversion's value
C6_InfallibleComposability ==
  call.op = "C::convert_from"
    => (call.ret.ty = "C" /\ call.ret.field = call.inner)

\* the test's case: C::convert_from(C(A(1))) gave C(B(1))
C6_Witness ==
  /\ call.op = "C::convert_from"
  /\ call.arg = C(Mk("A", 1)) /\ call.ret = C(Mk("B", 1))

\* C7: with only ConvertFrom<A> for B written by hand, B::try_convert_from(a)
\* (rule 1, then rule 3) is a success wrapping B::convert_from(a), with an
\* Error type without values; where convert_from is B(value.0),
\* a.convert_into() is B(a.0) and B::try_convert_from(a) is Ok(B(a.0))
C7_ChainedDerivation ==
  /\ (call.op = "try_convert_from" /\ call.origin = "rule3"
        /\ From("ConvertInto", "rule1"))
       => /\ call.ret = Ok(call.cf)
          /\ call.err = "Infallible" /\ Inhabitants(call.err) = {}
          /\ call.cf = Mk(call.tgt, call.arg.v) => call.ret = Ok(Mk(call.tgt, call.arg.v))
  /\ (call.op = "convert_into" /\ call.origin = "rule1"
        /\ call.cf = Mk(call.tgt, call.arg.v))
       => call.ret = Mk(call.tgt, call.arg.v)

\* the scenario: B::try_convert_from(A(1)) gave Ok(B(1)) through rules 1 and 3
C7_Witness ==
  /\ call.op = "try_convert_from" /\ call.origin = "rule3"
  /\ From("ConvertInto", "rule1") /\ From("ConvertFrom", "manual")
  /\ call.arg = Mk("A", 1) /\ call.ret = Ok(Mk("B", 1))

\* the pairs of types that have an implementation
Pairs == {<<i.src, i.tgt>> : i \in impls}

\* C8: every derived implementation is a ConvertInto from a ConvertFrom, a
\* TryConvertInto from a TryConvertFrom or a TryConvertFrom from a
\* ConvertInto of the same pair; none is a ConvertFrom; and a pair whose only
\* hand-written implementation is a TryConvertFrom has no ConvertFrom and no
\* ConvertInto
C8_DerivationDirection ==
  /\ \A d \in impls \ Manual(impls) :
       /\ d.cap # "ConvertFrom"
       /\ d.cap = "ConvertInto" =>
            (d.origin = "rule1" /\ Resolve(impls, "ConvertFrom", d.src, d.tgt) # {})
       /\ d.cap = "TryConvertInto" =>
            (d.origin = "rule2" /\ Resolve(impls, "TryConvertFrom", d.src, d.tgt) # {})
       /\ d.cap = "TryConvertFrom" =>
            (d.origin = "rule3" /\ Resolve(impls, "ConvertInto", d.src, d.tgt) # {})
  /\ \A p \in Pairs :
       LET own == {i \in Manual(impls) : i.src = p[1] /\ i.tgt = p[2]}
       IN  (\A i \in own : i.cap = "TryConvertFrom")
             => /\ Resolve(impls, "ConvertFrom", p[1], p[2]) = {}
                /\ Resolve(impls, "ConvertInto", p[1], p[2]) = {}

\* (A, B) has only a hand-written TryConvertFrom and the TryConvertInto
\* derived from it, while (B, A) has a ConvertFrom and all it derives
C8_Witness ==
  /\ Manual(impls) = {Impl("TryConvertFrom", "A", "B", "manual", "E"),
                      Impl("ConvertFrom", "B", "A", "manual", "None")}
  /\ Impl("TryConvertInto", "A", "B", "rule2", "E") \in impls
  /\ Impl("TryConvertFrom", "B", "A", "rule3", "Infallible") \in impls

\* the function of the trait that the pair's hand-written implementation is of
UserFn(i) ==
  IF i.cap = "ConvertFrom" THEN "convert_from"
  ELSE IF i.cap = "ConvertInto" THEN "convert_into"
  ELSE IF i.cap = "TryConvertFrom" THEN "try_convert_from"
  ELSE "try_convert_into"

\* C9: a call of a derived convert_into, try_convert_into or try_convert_from
\* invokes the pair's user-supplied conversion exactly once, on the call's
\* argument, invokes nothing else, and leaves the program as it was
C9_OneUnderlyingCall ==
  [][(call' # call /\ call'.origin \in {"rule1", "rule2", "rule3"})
       => /\ impls' = impls
          /\ Len(call'.calls) = 1
          /\ call'.calls[1].arg = call'.arg
          /\ call'.calls[1].fn = UserFn(Root(impls, call'.src, call'.tgt))]_vars

\* a.try_convert_into() went through rules 2, 3 and 1 and invoked the
\* hand-written convert_from once
C9_Witness ==
  /\ call.op = "try_convert_into" /\ call.origin = "rule2"
  /\ From("TryConvertFrom", "rule3") /\ From("ConvertInto", "rule1")
  /\ call.calls = <<[fn |-> "convert_from", arg |-> call.arg]>>

\* C10: a hand-written ConvertFrom<A> for B gives (A, B) all four traits, and
\* the a.try_convert_into() derived from it (rules 1, 3, 2) has the Error
\* type without values and is a success wrapping B::convert_from(a)
C10_FullChain ==
  /\ \A i \in Manual(impls) :
       i.cap = "ConvertFrom" =>
         \A cap \in Caps : Resolve(impls, cap, i.src, i.tgt) # {}
  /\ (call.op = "try_convert_into" /\ call.origin = "rule2"
        /\ From("TryConvertFrom", "rule3") /\ From("ConvertInto", "rule1"))
       => /\ call.err = "Infallible" /\ Inhabitants(call.err) = {}
          /\ call.ret = Ok(call.cf)

\* a.try_convert_into() of A(0) gave Ok(B(1)) in a program whose only
\* hand-written implementation is ConvertFrom<A> for B
C10_Witness ==
  /\ Manual(impls) = {Impl("ConvertFrom", "A", "B", "manual", "None")}
  /\ call.op = "try_convert_into" /\ call.origin = "rule2"
  /\ call.arg = Mk("A", 0) /\ call.ret = Ok(Mk("B", 1))

====
